---- MODULE Spec2Model ----
(***************************************************************************)
(* Model of src/app.py (NutriGen recipe generator).                        *)
(*                                                                         *)
(* Strings that the code slices or pattern-matches (parameter names, the   *)
(* decoded recipe text) are sequences of one-character strings.  A Python  *)
(* dict is a sequence of entries [k, v] with pairwise distinct keys, kept  *)
(* in insertion order.  Values are tagged records [t, val].                *)
(***************************************************************************)
EXTENDS Integers, Sequences, FiniteSets, TLC

\* ------------------------------------------------------------------ bounds
MaxKeys == 2

\* ------------------------------------------------------- python primitives
None == [t |-> "None", val |-> 0]
IntVal(n) == [t |-> "int", val |-> n]
FloatVal(s) == [t |-> "float", val |-> s]
DictVal(items) == [t |-> "dict", val |-> items]
TensorVal(i) == [t |-> "tensor", val |-> i]

\* s.startswith(p)
startswith(s, p) == Len(s) >= Len(p) /\ SubSeq(s, 1, Len(p)) = p

\* s[n:]
slice_from(s, n) == IF Len(s) <= n THEN << >> ELSE SubSeq(s, n + 1, Len(s))

\* key in d
dict_has(d, key) == \E i \in 1..Len(d) : d[i].k = key

\* d.get(key, default)
dict_get(d, key, default) ==
    IF dict_has(d, key)
    THEN d[CHOOSE i \in 1..Len(d) : d[i].k = key].v
    ELSE default

\* d[key] = value : an existing key keeps its position, a new key is appended
dict_set(d, key, value) ==
    IF dict_has(d, key)
    THEN [i \in 1..Len(d) |-> IF d[i].k = key THEN [k |-> key, v |-> value] ELSE d[i]]
    ELSE Append(d, [k |-> key, v |-> value])

\* list(d.keys())
dict_keys(d) == [i \in 1..Len(d) |-> d[i].k]

\* ------------------------------------------------------------- key literals
K_vocab_size == <<"v","o","c","a","b","_","s","i","z","e">>
K_d_model == <<"d","_","m","o","d","e","l">>
K_config == <<"c","o","n","f","i","g">>
K_n_heads == <<"n","_","h","e","a","d","s">>
K_n_layers == <<"n","_","l","a","y","e","r","s">>
K_d_ff == <<"d","_","f","f">>
K_dropout == <<"d","r","o","p","o","u","t">>
K_model_state_dict == <<"m","o","d","e","l","_","s","t","a","t","e","_","d","i","c","t">>

\* 'module.' and the literal 7 of k[7:]
WrapperPrefix == <<"m","o","d","u","l","e",".">>
StripLen == 7

\* per-field defaults of the configuration
DefaultDModel == 256
DefaultNHeads == 8
DefaultNLayers == 4
DefaultDFF == 1024
DefaultDropout == FloatVal("0.1")

\* ------------------------------------------------- checkpoint resolution
\* variant of resolve_config: the tokenizer's vocabulary size takes precedence
resolve_config_tokenizer_first(checkpoint, tokenizer) ==
    LET config == dict_get(checkpoint, K_config, DictVal(<< >>))
    IN  IF config.t # "dict"
        THEN [kind |-> "raise", exc |-> "AttributeError"]
        ELSE [kind |-> "ok",
              vocab_size |-> IntVal(tokenizer.vocab_size),
              d_model |-> dict_get(checkpoint, K_d_model, IntVal(DefaultDModel)),
              n_heads |-> dict_get(config.val, K_n_heads, IntVal(DefaultNHeads)),
              n_layers |-> dict_get(config.val, K_n_layers, IntVal(DefaultNLayers)),
              d_ff |-> dict_get(config.val, K_d_ff, IntVal(DefaultDFF)),
              dropout |-> dict_get(config.val, K_dropout, DefaultDropout)]

\* lines 108-116; raises AttributeError when 'config' is not a mapping
resolve_config(checkpoint, tokenizer) ==
    LET config == dict_get(checkpoint, K_config, DictVal(<< >>))
    IN  IF config.t # "dict"
        THEN [kind |-> "raise", exc |-> "AttributeError"]
        ELSE [kind |-> "ok",
              vocab_size |-> dict_get(checkpoint, K_vocab_size, IntVal(tokenizer.vocab_size)),
              d_model |-> dict_get(checkpoint, K_d_model, IntVal(DefaultDModel)),
              n_heads |-> dict_get(config.val, K_n_heads, IntVal(DefaultNHeads)),
              n_layers |-> dict_get(config.val, K_n_layers, IntVal(DefaultNLayers)),
              d_ff |-> dict_get(config.val, K_d_ff, IntVal(DefaultDFF)),
              dropout |-> dict_get(config.val, K_dropout, DefaultDropout)]

\* line 129: checkpoint.get('model_state_dict', checkpoint)
extract_state_dict(checkpoint) ==
    dict_get(checkpoint, K_model_state_dict, DictVal(checkpoint))

\* variant of strip_items: one character too few is removed
RECURSIVE strip_items_short(_, _, _)
strip_items_short(items, i, acc) ==
    IF i > Len(items)
    THEN acc
    ELSE strip_items_short(items, i + 1,
                     dict_set(acc, slice_from(items[i].k, StripLen - 1), items[i].v))

\* line 133: {k[7:]: v for k, v in state_dict.items()}
RECURSIVE strip_items(_, _, _)
strip_items(items, i, acc) ==
    IF i > Len(items)
    THEN acc
    ELSE strip_items(items, i + 1,
                     dict_set(acc, slice_from(items[i].k, StripLen), items[i].v))

\* variant of normalize_state_dict: the prefix is tested and stripped per key
normalize_per_key(state_dict) ==
    IF state_dict.t # "dict"
    THEN [kind |-> "raise", exc |-> "AttributeError"]
    ELSE IF Len(state_dict.val) = 0
    THEN [kind |-> "raise", exc |-> "IndexError"]
    ELSE [kind |-> "ok",
          state_dict |-> [i \in 1..Len(state_dict.val) |->
              IF startswith(state_dict.val[i].k, WrapperPrefix)
              THEN [k |-> slice_from(state_dict.val[i].k, StripLen), v |-> state_dict.val[i].v]
              ELSE state_dict.val[i]]]

\* variant of normalize_state_dict: the last key decides instead of the first
normalize_by_last_key(state_dict) ==
    IF state_dict.t # "dict"
    THEN [kind |-> "raise", exc |-> "AttributeError"]
    ELSE IF Len(state_dict.val) = 0
    THEN [kind |-> "raise", exc |-> "IndexError"]
    ELSE IF startswith(dict_keys(state_dict.val)[Len(state_dict.val)], WrapperPrefix)
    THEN [kind |-> "ok", state_dict |-> strip_items(state_dict.val, 1, << >>)]
    ELSE [kind |-> "ok", state_dict |-> state_dict.val]

\* lines 132-133; list(...)[0] raises IndexError on an empty mapping
normalize_state_dict(state_dict) ==
    IF state_dict.t # "dict"
    THEN [kind |-> "raise", exc |-> "AttributeError"]
    ELSE IF Len(state_dict.val) = 0
    THEN [kind |-> "raise", exc |-> "IndexError"]
    ELSE IF startswith(dict_keys(state_dict.val)[1], WrapperPrefix)
    THEN [kind |-> "ok", state_dict |-> strip_items(state_dict.val, 1, << >>)]
    ELSE [kind |-> "ok", state_dict |-> state_dict.val]

\* ----------------------------------------------------------- postprocessor
AsciiLower ==
    <<"a","b","c","d","e","f","g","h","i","j","k","l","m","n","o","p","q","r","s","t","u","v","w","x","y","z">>
AsciiUpper ==
    <<"A","B","C","D","E","F","G","H","I","J","K","L","M","N","O","P","Q","R","S","T","U","V","W","X","Y","Z">>
LowerSet == { AsciiLower[i] : i \in 1..Len(AsciiLower) }
UpperSet == { AsciiUpper[i] : i \in 1..Len(AsciiUpper) }

\* c.upper() and c.lower() of one character
upper(c) ==
    IF c \in LowerSet THEN AsciiUpper[CHOOSE i \in 1..Len(AsciiLower) : AsciiLower[i] = c] ELSE c
lower(c) ==
    IF c \in UpperSet THEN AsciiLower[CHOOSE i \in 1..Len(AsciiUpper) : AsciiUpper[i] = c] ELSE c

\* the classes of the pattern ([.!?])\s*([a-z])
TerminalMarks == {".", "!", "?"}
Whitespace == {" ", "\t", "\n", "\r", "\f"}

\* line 191: str.capitalize() upper-cases the first character and lower-cases the rest
capitalize(text) == [i \in 1..Len(text) |-> IF i = 1 THEN upper(text[i]) ELSE lower(text[i])]

\* index of the first character at or after j that is not whitespace (greedy \s*)
RECURSIVE skip_whitespace(_, _)
skip_whitespace(text, j) ==
    IF j <= Len(text) /\ text[j] \in Whitespace THEN skip_whitespace(text, j + 1) ELSE j

\* variant of re_sub: the pattern has no \s*, i.e. ([.!?])([a-z])
RECURSIVE re_sub_no_space(_, _, _)
re_sub_no_space(text, i, acc) ==
    IF i > Len(text)
    THEN acc
    ELSE IF text[i] \in TerminalMarks /\ i + 1 <= Len(text) /\ text[i + 1] \in LowerSet
         THEN re_sub_no_space(text, i + 2, acc \o <<text[i], " ", upper(text[i + 1])>>)
         ELSE re_sub_no_space(text, i + 1, Append(acc, text[i]))

\* line 192: re.sub over the non-overlapping leftmost matches, scanning from i
RECURSIVE re_sub(_, _, _)
re_sub(text, i, acc) ==
    IF i > Len(text)
    THEN acc
    ELSE LET j == skip_whitespace(text, i + 1)
         IN  IF text[i] \in TerminalMarks /\ j <= Len(text) /\ text[j] \in LowerSet
             THEN re_sub(text, j + 1, acc \o <<text[i], " ", upper(text[j])>>)
             ELSE re_sub(text, i + 1, Append(acc, text[i]))

\* ------------------------------------------------------------------ loader
NoneTriple == [model |-> None, tokenizer |-> None, device |-> None]

Msg(level, text) == [level |-> level, text |-> text]

Return(value, msgs) == [kind |-> "return", value |-> value, msgs |-> msgs]
Raise(msgs) == [kind |-> "raise", value |-> NoneTriple, msgs |-> msgs]

\* lines 80-85
select_device(env) ==
    IF env.mps THEN "mps" ELSE IF env.cuda THEN "cuda" ELSE "cpu"

\* the object lines 120-137 build: constructed, parameters loaded, moved, eval()
Model(cfg, state_dict, device) ==
    [t |-> "model",
     val |-> [config |-> cfg, state_dict |-> state_dict, device |-> device, training |-> FALSE]]

\* lines 79-139, the body of the try block.  env.fault names the library
\* call that raises in this execution, if any.
load_try(env) ==
    IF env.fault = "is_available" THEN Raise(<< >>)
    ELSE
    LET device == select_device(env)
        m1 == << Msg("write", "Using device: " \o device) >>
    IN
    IF ~env.tokenizer_exists
    THEN Return(NoneTriple, Append(m1, Msg("error", "Tokenizer not found")))
    ELSE IF env.fault = "RecipeTokenizer.load" THEN Raise(m1)
    ELSE IF ~env.model_exists
    THEN Return(NoneTriple, Append(m1, Msg("error", "Model not found")))
    ELSE IF env.fault = "torch.load" THEN Raise(m1)
    ELSE
    LET cfg == resolve_config(env.checkpoint, env.tokenizer)
        m2 == Append(m1, Msg("write", "Model config"))
    IN
    IF cfg.kind = "raise" THEN Raise(m1)
    ELSE IF env.fault = "RecipeTransformer" THEN Raise(m2)
    ELSE
    LET nrm == normalize_state_dict(extract_state_dict(env.checkpoint))
    IN
    IF nrm.kind = "raise" THEN Raise(m2)
    ELSE IF env.fault \in {"load_state_dict", "to"} THEN Raise(m2)
    ELSE Return([model |-> Model(cfg, nrm.state_dict, device),
                 tokenizer |-> env.tokenizer,
                 device |-> [t |-> "device", val |-> device]], m2)

\* variant of load_model_and_tokenizer: the handler falls back to whatever
\* was loaded before the fault, keeping the device
load_model_and_tokenizer_partial(env) ==
    LET r == load_try(env)
    IN  IF r.kind = "raise"
        THEN Return([model |-> None, tokenizer |-> None,
                     device |-> [t |-> "device", val |-> select_device(env)]],
                    Append(r.msgs, Msg("error", "Error loading model")))
        ELSE r

\* variant of load_model_and_tokenizer: the handler returns without st.error
load_model_and_tokenizer_silent(env) ==
    LET r == load_try(env)
    IN  IF r.kind = "raise"
        THEN Return(NoneTriple, r.msgs)
        ELSE r

\* lines 77-143: the try block and its except clause
load_model_and_tokenizer(env) ==
    LET r == load_try(env)
    IN  IF r.kind = "raise"
        THEN Return(NoneTriple, Append(r.msgs, Msg("error", "Error loading model")))
        ELSE r

\* -------------------------------------------------------------- variables
VARIABLES
    checkpoint,     \* the mapping torch.load returns (resolution study)
    tokenizer,      \* the loaded tokenizer object (resolution study)
    resolved,       \* outcome of lines 107-135 on that checkpoint
    decoded,        \* what tokenizer.decode returned (postprocessing study)
    recipe_text,    \* the variable recipe_text of lines 187-192
    post_pc,        \* position in lines 187-192
    input_ids,      \* result of tokenizer.encode (generation study)
    output_ids,     \* the growing token sequence inside model.generate
    gen_max_length, \* the max_length argument model.generate received
    gen_pc,         \* position in lines 174-184
    environment,    \* what the loader finds on this machine (loader study)
    loaded,         \* outcome of load_model_and_tokenizer() (loader study)
    cache,          \* the st.cache_resource entry of load_model_and_tokenizer
    lock,           \* holder of the entry's compute lock, 0 when free
    loads,          \* history: the value each execution of the loader body returned
    session         \* per script run: position, widget values, locals, output

vars == <<checkpoint, tokenizer, resolved, decoded, recipe_text, post_pc,
          input_ids, output_ids, gen_max_length, gen_pc, environment, loaded,
          cache, lock, loads, session>>
app_vars == <<cache, lock, loads, session>>
load_vars == <<environment, loaded>>
resolve_vars == <<checkpoint, tokenizer, resolved>>
post_vars == <<decoded, recipe_text, post_pc>>
gen_vars == <<input_ids, output_ids, gen_max_length, gen_pc>>

\* ------------------------------------------------------ checkpoint inputs
\* parameter names used to build state dicts
ParamKeys ==
    { WrapperPrefix \o <<"w">>,
      WrapperPrefix \o <<"b">>,
      WrapperPrefix \o WrapperPrefix \o <<"w">>,
      <<"w">>,
      <<"f","c",".","b">>,
      <<"e","n","c","o","d","e","r","w">>,
      <<"e","n","c","o","d","e","r">> \o WrapperPrefix \o <<"b">> }

IsInjective(s) == \A i, j \in 1..Len(s) : s[i] = s[j] => i = j

KeyOrders ==
    { s \in UNION { [1..n -> ParamKeys] : n \in 0..MaxKeys } : IsInjective(s) }

ParamItems(s) == [i \in 1..Len(s) |-> [k |-> s[i], v |-> TensorVal(i)]]

VocabOpts ==
    { << >>,
      << [k |-> K_vocab_size, v |-> IntVal(5)] >>,
      << [k |-> K_vocab_size, v |-> IntVal(7)] >> }

DModelOpts == { << >>, << [k |-> K_d_model, v |-> IntVal(128)] >> }

ConfigOpts ==
    { << >>,
      << [k |-> K_config, v |-> DictVal(<< >>)] >>,
      << [k |-> K_config, v |-> DictVal(<< [k |-> K_n_heads, v |-> IntVal(2)] >>)] >>,
      << [k |-> K_config, v |-> DictVal(<< [k |-> K_dropout, v |-> FloatVal("0.3")],
                                           [k |-> K_d_ff, v |-> IntVal(512)] >>)] >>,
      << [k |-> K_config, v |-> DictVal(<< [k |-> K_n_heads, v |-> IntVal(2)],
                                           [k |-> K_n_layers, v |-> IntVal(6)],
                                           [k |-> K_d_ff, v |-> IntVal(512)],
                                           [k |-> K_dropout, v |-> FloatVal("0.3")] >>)] >> }

MetaItems == { a \o b \o c : a \in VocabOpts, b \in DModelOpts, c \in ConfigOpts }

\* wrapper checkpoints carry 'model_state_dict'; raw ones are the state dict itself
Checkpoints ==
    { m \o << [k |-> K_model_state_dict, v |-> DictVal(ParamItems(s))] >> :
          m \in MetaItems, s \in KeyOrders }
    \cup { m \o ParamItems(s) : m \in MetaItems, s \in KeyOrders }
    \cup { ParamItems(s) \o m : m \in MetaItems, s \in KeyOrders }

Tokenizers == { [t |-> "tokenizer", vocab_size |-> n] : n \in {5, 9} }

Pending == [kind |-> "pending"]

\* lines 107-135 up to the argument of load_state_dict
resolve(ckpt, tok) ==
    LET cfg == resolve_config(ckpt, tok)
        nrm == normalize_state_dict(extract_state_dict(ckpt))
    IN  IF cfg.kind = "raise" THEN cfg
        ELSE IF nrm.kind = "raise"
        THEN [kind |-> "raise", exc |-> nrm.exc, config |-> cfg]
        ELSE [kind |-> "ok", config |-> cfg, state_dict |-> nrm.state_dict]

PostIdle ==
    /\ decoded = << >>
    /\ recipe_text = << >>
    /\ post_pc = "idle"

NoEnvironment ==
    [mps |-> FALSE, cuda |-> FALSE, tokenizer_exists |-> FALSE, model_exists |-> FALSE,
     tokenizer |-> [t |-> "tokenizer", vocab_size |-> 5], checkpoint |-> << >>,
     fault |-> "none"]

LoadIdle ==
    /\ environment = NoEnvironment
    /\ loaded = Pending

AppIdle ==
    /\ cache = [filled |-> FALSE, value |-> NoneTriple, msgs |-> << >>]
    /\ lock = 0
    /\ loads = << >>
    /\ session = << >>

GenIdle ==
    /\ input_ids = << >>
    /\ output_ids = << >>
    /\ gen_max_length = 0
    /\ gen_pc = "idle"

InitResolve ==
    /\ checkpoint \in Checkpoints
    /\ tokenizer \in Tokenizers
    /\ resolved = Pending
    /\ PostIdle
    /\ GenIdle
    /\ LoadIdle
    /\ AppIdle

Resolve ==
    /\ resolved = Pending
    /\ resolved' = resolve(checkpoint, tokenizer)
    /\ UNCHANGED <<checkpoint, tokenizer, post_vars, gen_vars, load_vars, app_vars>>

NextResolve == Resolve

SpecResolve == InitResolve /\ [][NextResolve]_vars

\* --------------------------------------------------- postprocessing study
MaxLen == 4

TextAlphabet == {"a", "Z", ".", "?", " ", "1"}

ExampleText == <<"h","e","l","l","o"," ","w","o","r","l","d","."," ","t","h","i","s"," ","i","s"," ","n","u","t","r","i","g","e","n",".">>
ExampleClean == <<"H","e","l","l","o"," ","w","o","r","l","d","."," ","T","h","i","s"," ","i","s"," ","n","u","t","r","i","g","e","n",".">>

Texts == UNION { [1..n -> TextAlphabet] : n \in 0..MaxLen } \cup {ExampleText}

ResolveIdle ==
    /\ checkpoint = << >>
    /\ tokenizer = [t |-> "tokenizer", vocab_size |-> 5]
    /\ resolved = Pending

InitPost ==
    /\ decoded \in Texts
    /\ recipe_text = decoded
    /\ post_pc = "decoded"
    /\ ResolveIdle
    /\ GenIdle
    /\ LoadIdle
    /\ AppIdle

\* line 191
Capitalize ==
    /\ post_pc = "decoded"
    /\ recipe_text' = capitalize(recipe_text)
    /\ post_pc' = "capitalized"
    /\ UNCHANGED <<decoded, resolve_vars, gen_vars, load_vars, app_vars>>

\* line 192
Substitute ==
    /\ post_pc = "capitalized"
    /\ recipe_text' = re_sub(recipe_text, 1, << >>)
    /\ post_pc' = "substituted"
    /\ UNCHANGED <<decoded, resolve_vars, gen_vars, load_vars, app_vars>>

NextPost == Capitalize \/ Substitute

SpecPost == InitPost /\ [][NextPost]_vars

\* ------------------------------------------------------ generation study
MaxPromptLen == 2

\* max_length of tokenizer.encode (line 174) and of model.generate (line 181)
EncodeMaxLength == 200
GenerateMaxLength == 300

EosToken == "<eos>"
Vocabulary == {EosToken, "tok"}

PromptLengths == (0..MaxPromptLen) \cup {EncodeMaxLength - 1, EncodeMaxLength}

InitGen ==
    /\ input_ids = << >>
    /\ output_ids = << >>
    /\ gen_max_length = 0
    /\ gen_pc = "encode"
    /\ ResolveIdle
    /\ PostIdle
    /\ LoadIdle
    /\ AppIdle

\* line 174: tokenizer.encode(input_text, max_length=200) yields at most 200 ids
EncodeCall ==
    /\ gen_pc = "encode"
    /\ \E n \in PromptLengths :
          /\ n <= EncodeMaxLength
          /\ input_ids' = [i \in 1..n |-> "tok"]
    /\ gen_pc' = "generate"
    /\ UNCHANGED <<output_ids, gen_max_length, resolve_vars, post_vars, load_vars, app_vars>>

\* lines 178-184: model.generate(input_tensor, tokenizer, max_length=300, ...)
GenerateCall ==
    /\ gen_pc = "generate"
    /\ output_ids' = input_ids
    /\ gen_max_length' = GenerateMaxLength
    /\ gen_pc' = "sampling"
    /\ UNCHANGED <<input_ids, resolve_vars, post_vars, load_vars, app_vars>>

\* variant of SampleStep: the length test is off by one
SampleStep_off_by_one ==
    /\ gen_pc = "sampling"
    /\ \E tok \in Vocabulary :
          /\ output_ids' = Append(output_ids, tok)
          /\ gen_pc' = IF tok = EosToken
                          \/ Len(output_ids') - Len(input_ids) > gen_max_length
                       THEN "returned" ELSE "sampling"
    /\ UNCHANGED <<input_ids, gen_max_length, resolve_vars, post_vars, load_vars, app_vars>>

\* one iteration of the decoding loop: sample a token, append it, stop on
\* end-of-sequence or when max_length tokens have been produced
SampleStep ==
    /\ gen_pc = "sampling"
    /\ \E tok \in Vocabulary :
          /\ output_ids' = Append(output_ids, tok)
          /\ gen_pc' = IF tok = EosToken
                          \/ Len(output_ids') - Len(input_ids) >= gen_max_length
                       THEN "returned" ELSE "sampling"
    /\ UNCHANGED <<input_ids, gen_max_length, resolve_vars, post_vars, load_vars, app_vars>>

NextGen == EncodeCall \/ GenerateCall \/ SampleStep

SpecGen == InitGen /\ [][NextGen]_vars /\ WF_vars(SampleStep)

\* ----------------------------------------------------------- loader study
Faults ==
    {"none", "is_available", "RecipeTokenizer.load", "torch.load",
     "RecipeTransformer", "load_state_dict", "to"}

\* a wrapper checkpoint from a DataParallel run, a bare state dict, an empty
\* mapping, and a wrapper whose state dict is empty
LoaderCheckpoints ==
    { << [k |-> K_vocab_size, v |-> IntVal(7)],
         [k |-> K_model_state_dict,
          v |-> DictVal(ParamItems(<< WrapperPrefix \o <<"w">>, WrapperPrefix \o <<"b">> >>))] >>,
      ParamItems(<< <<"w">> >>),
      << >>,
      << [k |-> K_model_state_dict, v |-> DictVal(<< >>)] >> }

Environments ==
    [mps : BOOLEAN, cuda : BOOLEAN, tokenizer_exists : BOOLEAN, model_exists : BOOLEAN,
     tokenizer : Tokenizers, checkpoint : LoaderCheckpoints, fault : Faults]

InitLoad ==
    /\ environment \in Environments
    /\ loaded = Pending
    /\ ResolveIdle
    /\ PostIdle
    /\ GenIdle
    /\ AppIdle

\* line 146 on a cold cache
Load ==
    /\ loaded = Pending
    /\ loaded' = load_model_and_tokenizer(environment)
    /\ UNCHANGED <<environment, resolve_vars, post_vars, gen_vars, app_vars>>

NextLoad == Load

SpecLoad == InitLoad /\ [][NextLoad]_vars

\* ------------------------------------------------------------ application
NumSessions == 2
Sessions == 1..NumSessions

\* s.strip()
RECURSIVE lstrip(_)
lstrip(text) ==
    IF Len(text) > 0 /\ text[1] \in Whitespace THEN lstrip(Tail(text)) ELSE text
RECURSIVE rstrip(_)
rstrip(text) ==
    IF Len(text) > 0 /\ text[Len(text)] \in Whitespace
    THEN rstrip(SubSeq(text, 1, Len(text) - 1)) ELSE text
strip(text) == rstrip(lstrip(text))

\* s.split(','), scanning from i with the current piece cur
RECURSIVE split_comma(_, _, _, _)
split_comma(text, i, cur, acc) ==
    IF i > Len(text) THEN Append(acc, cur)
    ELSE IF text[i] = "," THEN split_comma(text, i + 1, << >>, Append(acc, cur))
    ELSE split_comma(text, i + 1, Append(cur, text[i]), acc)

\* line 160: [i.strip() for i in ingredients_input.split(',')]
parse_ingredients(text) ==
    LET parts == split_comma(text, 1, << >>, << >>)
    IN  [i \in 1..Len(parts) |-> strip(parts[i])]

\* lines 191-192
postprocess(text) == re_sub(capitalize(text), 1, << >>)

\* what the text area can hold and what tokenizer.decode can return
IngredientInputs == { << >>, <<"a", ",", " ">> }
DecodedTexts == { << >>, <<"o", "k", ".", "g", "o">> }

\* the (device, files, checkpoint, fault) combinations a load can meet
AppEnvironments ==
    { e \in Environments :
        /\ e.tokenizer.vocab_size = 5
        /\ e.checkpoint \in { << >>, ParamItems(<< <<"w">> >>) } }

NewRun(ingredients, pressed) ==
    [pc |-> "load", ingredients_input |-> ingredients, generate_btn |-> pressed,
     model |-> None, tokenizer |-> None, device |-> None,
     load_msgs |-> << >>, shown |-> << >>, trace |-> << >>,
     ingredients_list |-> << >>, text |-> << >>, exc |-> "none"]

Init ==
    /\ cache = [filled |-> FALSE, value |-> NoneTriple, msgs |-> << >>]
    /\ lock = 0
    /\ loads = << >>
    /\ session = [t \in Sessions |-> [NewRun(<< >>, FALSE) EXCEPT !.pc = "start"]]
    /\ ResolveIdle
    /\ PostIdle
    /\ GenIdle
    /\ LoadIdle

others == <<resolve_vars, post_vars, gen_vars, load_vars>>

\* the session's locals after line 146 received value, with the messages shown
Received(t, value, msgs) ==
    [session EXCEPT ![t] = [@ EXCEPT !.pc = "inference",
                                     !.model = value.model,
                                     !.tokenizer = value.tokenizer,
                                     !.device = value.device,
                                     !.load_msgs = msgs]]

\* lines 53-73: a script run starts with the current widget values
RunScript(t) ==
    /\ session[t].pc \in {"start", "done"}
    /\ \E ingredients \in IngredientInputs, pressed \in BOOLEAN :
          session' = [session EXCEPT ![t] = NewRun(ingredients, pressed)]
    /\ UNCHANGED <<cache, lock, loads, others>>

\* lines 76 and 146: the cached function is called; a filled entry is
\* returned, and its recorded messages are replayed, without taking the lock
CacheLookup(t) ==
    /\ session[t].pc = "load"
    /\ session' = IF cache.filled
                  THEN Received(t, cache.value, cache.msgs)
                  ELSE [session EXCEPT ![t].pc = "miss"]
    /\ UNCHANGED <<cache, lock, loads, others>>

\* line 76: on a miss the caller takes the entry's compute lock
AcquireLock(t) ==
    /\ session[t].pc = "miss"
    /\ lock = 0
    /\ lock' = t
    /\ session' = [session EXCEPT ![t].pc = "locked"]
    /\ UNCHANGED <<cache, loads, others>>

\* line 76: under the lock the cache is read again; another caller may have filled it
LockedLookup(t) ==
    /\ session[t].pc = "locked"
    /\ cache.filled
    /\ lock' = 0
    /\ session' = Received(t, cache.value, cache.msgs)
    /\ UNCHANGED <<cache, loads, others>>

\* variant of Compute: the cache is not read again under the lock
Compute_no_recheck(t) ==
    /\ session[t].pc = "locked"
    /\ \E env \in AppEnvironments :
          LET r == load_model_and_tokenizer(env)
          IN  /\ loads' = Append(loads, r.value)
              /\ cache' = [filled |-> TRUE, value |-> r.value, msgs |-> r.msgs]
              /\ session' = Received(t, r.value, r.msgs)
    /\ lock' = 0
    /\ UNCHANGED others

\* lines 76-143 and 146: still empty under the lock, so the body runs; a
\* returned value is stored with its messages, an exception is not stored
Compute(t) ==
    /\ session[t].pc = "locked"
    /\ ~cache.filled
    /\ \E env \in AppEnvironments :
          LET r == load_model_and_tokenizer(env)
          IN  /\ loads' = Append(loads, r.value)
              /\ IF r.kind = "return"
                 THEN /\ cache' = [filled |-> TRUE, value |-> r.value, msgs |-> r.msgs]
                      /\ session' = Received(t, r.value, r.msgs)
                 ELSE /\ cache' = cache
                      /\ session' = [session EXCEPT ![t].pc = "crashed"]
    /\ lock' = 0
    /\ UNCHANGED others

Show(t, msgs, pc) ==
    [session EXCEPT ![t] = [@ EXCEPT !.shown = @ \o msgs, !.pc = pc]]

\* line 149, button not pressed
NoTrigger(t) ==
    /\ session[t].pc = "inference"
    /\ ~session[t].generate_btn
    /\ session' = [session EXCEPT ![t].pc = "done"]
    /\ UNCHANGED <<cache, lock, loads, others>>

\* lines 150-151
EmptyInput(t) ==
    /\ session[t].pc = "inference"
    /\ session[t].generate_btn
    /\ session[t].ingredients_input = << >>
    /\ session' = Show(t, << Msg("warning", "Please enter some ingredients first!") >>, "done")
    /\ UNCHANGED <<cache, lock, loads, others>>

\* lines 152-153
LoadFailed(t) ==
    /\ session[t].pc = "inference"
    /\ session[t].generate_btn
    /\ session[t].ingredients_input # << >>
    /\ session[t].model = None
    /\ session' = Show(t, << Msg("error", "Model failed to load.") >>, "done")
    /\ UNCHANGED <<cache, lock, loads, others>>

\* variant of BeginPipeline: the model is not tested
BeginPipeline_unchecked(t) ==
    /\ session[t].pc = "inference"
    /\ session[t].generate_btn
    /\ session[t].ingredients_input # << >>
    /\ session' = Show(t, << Msg("subheader", "Generated Recipe") >>, "format")
    /\ UNCHANGED <<cache, lock, loads, others>>

\* lines 154-158
BeginPipeline(t) ==
    /\ session[t].pc = "inference"
    /\ session[t].generate_btn
    /\ session[t].ingredients_input # << >>
    /\ session[t].model # None
    /\ session' = Show(t, << Msg("subheader", "Generated Recipe") >>, "format")
    /\ UNCHANGED <<cache, lock, loads, others>>

\* a call of the try block: it is recorded, then returns or raises
Called(t, op, ok, next) ==
    [session EXCEPT ![t] = [@ EXCEPT !.trace = Append(@, op),
                                     !.pc = IF ok THEN next ELSE "except",
                                     !.exc = IF ok THEN "none" ELSE op]]

\* lines 160-171: parse the ingredients, call format_ingredients_for_input
Format(t) ==
    /\ session[t].pc = "format"
    /\ \E ok \in BOOLEAN :
          session' = [Called(t, "format", ok, "encode") EXCEPT
                         ![t].ingredients_list = parse_ingredients(session[t].ingredients_input)]
    /\ UNCHANGED <<cache, lock, loads, others>>

\* lines 174-175
Encode(t) ==
    /\ session[t].pc = "encode"
    /\ \E ok \in BOOLEAN : session' = Called(t, "encode", ok, "generate")
    /\ UNCHANGED <<cache, lock, loads, others>>

\* lines 178-184
Generate(t) ==
    /\ session[t].pc = "generate"
    /\ \E ok \in BOOLEAN : session' = Called(t, "generate", ok, "decode")
    /\ UNCHANGED <<cache, lock, loads, others>>

\* line 187
Decode(t) ==
    /\ session[t].pc = "decode"
    /\ \E ok \in BOOLEAN, text \in DecodedTexts :
          session' = [Called(t, "decode", ok, "postprocess") EXCEPT
                         ![t].text = IF ok THEN text ELSE << >>]
    /\ UNCHANGED <<cache, lock, loads, others>>

\* lines 191-192
Postprocess(t) ==
    /\ session[t].pc = "postprocess"
    /\ session' = [Called(t, "postprocess", TRUE, "render") EXCEPT
                      ![t].text = postprocess(session[t].text)]
    /\ UNCHANGED <<cache, lock, loads, others>>

\* lines 195-203
Render(t) ==
    /\ session[t].pc = "render"
    /\ \E ok \in BOOLEAN :
          session' = [Called(t, "render", ok, "done") EXCEPT
                         ![t].shown = IF ok
                                      THEN @ \o << Msg("info", "Based on"),
                                                   Msg("markdown", "recipe-card") >>
                                      ELSE @]
    /\ UNCHANGED <<cache, lock, loads, others>>

\* lines 205-207
Except(t) ==
    /\ session[t].pc = "except"
    /\ session' = Show(t, << Msg("error", "An error occurred during generation"),
                             Msg("exception", session[t].exc) >>, "done")
    /\ UNCHANGED <<cache, lock, loads, others>>

Next ==
    \E t \in Sessions :
        \/ RunScript(t)
        \/ CacheLookup(t)
        \/ AcquireLock(t)
        \/ LockedLookup(t)
        \/ Compute(t)
        \/ NoTrigger(t)
        \/ EmptyInput(t)
        \/ LoadFailed(t)
        \/ BeginPipeline(t)
        \/ Format(t)
        \/ Encode(t)
        \/ Generate(t)
        \/ Decode(t)
        \/ Postprocess(t)
        \/ Render(t)
        \/ Except(t)

Spec == Init /\ [][Next]_vars

\* ============================================ properties of the resolution
\* the parameter mapping the checkpoint holds, before normalization
SourceItems == extract_state_dict(checkpoint).val

\* the key with its first n characters dropped, written out positionally
Drop(key, n) == [i \in 1..(Len(key) - n) |-> key[i + n]]

HasPrefix(key) ==
    /\ Len(key) >= 7
    /\ <<key[1], key[2], key[3], key[4], key[5], key[6], key[7]>>
           = <<"m","o","d","u","l","e",".">>

AllPrefixed == Len(SourceItems) > 0 /\ \A i \in 1..Len(SourceItems) : HasPrefix(SourceItems[i].k)

\* C4 as stated: when every key carries 'module.', the set handed to
\* load_state_dict has no prefixed key, as many keys as the checkpoint, and
\* each key is the original with its first 7 characters removed.
C4_Original ==
    (resolved # Pending /\ AllPrefixed) =>
        /\ resolved.kind = "ok"
        /\ Len(resolved.state_dict) = Len(SourceItems)
        /\ \A i \in 1..Len(SourceItems) :
              /\ resolved.state_dict[i].k = Drop(SourceItems[i].k, 7)
              /\ ~HasPrefix(resolved.state_dict[i].k)

\* C4 amended: as C4, except that a key is still prefixed after the strip
\* exactly when the original key carried the prefix twice in succession.
C4_Stripped ==
    (resolved # Pending /\ AllPrefixed) =>
        /\ resolved.kind = "ok"
        /\ Len(resolved.state_dict) = Len(SourceItems)
        /\ \A i \in 1..Len(SourceItems) :
              /\ resolved.state_dict[i].k = Drop(SourceItems[i].k, 7)
              /\ resolved.state_dict[i].v = SourceItems[i].v
              /\ HasPrefix(resolved.state_dict[i].k)
                    <=> HasPrefix(Drop(SourceItems[i].k, 7))

C4_Witness ==
    /\ resolved # Pending
    /\ AllPrefixed
    /\ Len(SourceItems) = 2
    /\ resolved.kind = "ok"
    /\ \E i \in 1..2 : HasPrefix(resolved.state_dict[i].k)
    /\ \E i \in 1..2 : ~HasPrefix(resolved.state_dict[i].k)

\* C5 as stated: after normalization no key handed to the model carries
\* 'module.', for every non-empty parameter mapping.
C5_Original ==
    (resolved # Pending /\ resolved.kind = "ok") =>
        \A j \in 1..Len(resolved.state_dict) : ~HasPrefix(resolved.state_dict[j].k)

\* C5 amended: a key handed to the model carries 'module.' exactly when
\* the first key was prefixed and some key has 'module.' again at offset 7,
\* or the first key was not prefixed and some key is prefixed.
C5_PrefixFree ==
    (resolved # Pending /\ Len(SourceItems) > 0) =>
        /\ resolved.kind = "ok"
        /\ (\E j \in 1..Len(resolved.state_dict) : HasPrefix(resolved.state_dict[j].k))
             <=> IF HasPrefix(SourceItems[1].k)
                 THEN \E i \in 1..Len(SourceItems) : HasPrefix(Drop(SourceItems[i].k, 7))
                 ELSE \E i \in 1..Len(SourceItems) : HasPrefix(SourceItems[i].k)

C5_Witness ==
    /\ resolved # Pending
    /\ resolved.kind = "ok"
    /\ Len(SourceItems) = 2
    /\ HasPrefix(SourceItems[1].k)
    /\ ~HasPrefix(SourceItems[2].k)
    /\ \A j \in 1..Len(resolved.state_dict) : ~HasPrefix(resolved.state_dict[j].k)

\* C10: the first key alone decides.  If it is prefixed, the keys handed to
\* the model are exactly the original keys with 7 characters dropped, each
\* with the value of the last original entry mapping to it; otherwise the
\* mapping is handed over unchanged.
C10_FirstKeyDecides ==
    (resolved # Pending /\ Len(SourceItems) > 0) =>
        /\ resolved.kind = "ok"
        /\ IF HasPrefix(SourceItems[1].k)
           THEN /\ \A i \in 1..Len(SourceItems) :
                      \E j \in 1..Len(resolved.state_dict) :
                          resolved.state_dict[j].k = Drop(SourceItems[i].k, 7)
                /\ \A j \in 1..Len(resolved.state_dict) :
                      \E i \in 1..Len(SourceItems) :
                          /\ resolved.state_dict[j].k = Drop(SourceItems[i].k, 7)
                          /\ resolved.state_dict[j].v = SourceItems[i].v
                          /\ \A h \in (i + 1)..Len(SourceItems) :
                                Drop(SourceItems[h].k, 7) # Drop(SourceItems[i].k, 7)
           ELSE resolved.state_dict = SourceItems

C10_Witness ==
    /\ resolved # Pending
    /\ resolved.kind = "ok"
    /\ Len(SourceItems) = 2
    /\ HasPrefix(SourceItems[1].k)
    /\ ~HasPrefix(SourceItems[2].k)
    /\ Len(resolved.state_dict) = 1

\* the value stored under a top-level or nested name, if any
Stored(items, key, value) == \E i \in 1..Len(items) : items[i].k = key /\ items[i].v = value
Lacks(items, key) == \A i \in 1..Len(items) : items[i].k # key

NestedConfig ==
    IF Lacks(checkpoint, K_config) THEN << >>
    ELSE checkpoint[CHOOSE i \in 1..Len(checkpoint) : checkpoint[i].k = K_config].v.val

\* C6: every configuration field gets a value by per-field fallback:
\* vocab_size from the checkpoint, else the tokenizer's; d_model from the
\* checkpoint, else 256; n_heads, n_layers, d_ff, dropout from the nested
\* config, else 8, 4, 1024, 0.1.
C6_ConfigFallback ==
    resolved # Pending =>
        LET c == resolved.config
        IN  /\ c.kind = "ok"
            /\ \/ Stored(checkpoint, K_vocab_size, c.vocab_size)
               \/ Lacks(checkpoint, K_vocab_size)
                    /\ c.vocab_size = [t |-> "int", val |-> tokenizer.vocab_size]
            /\ \/ Stored(checkpoint, K_d_model, c.d_model)
               \/ Lacks(checkpoint, K_d_model) /\ c.d_model = [t |-> "int", val |-> 256]
            /\ \/ Stored(NestedConfig, K_n_heads, c.n_heads)
               \/ Lacks(NestedConfig, K_n_heads) /\ c.n_heads = [t |-> "int", val |-> 8]
            /\ \/ Stored(NestedConfig, K_n_layers, c.n_layers)
               \/ Lacks(NestedConfig, K_n_layers) /\ c.n_layers = [t |-> "int", val |-> 4]
            /\ \/ Stored(NestedConfig, K_d_ff, c.d_ff)
               \/ Lacks(NestedConfig, K_d_ff) /\ c.d_ff = [t |-> "int", val |-> 1024]
            /\ \/ Stored(NestedConfig, K_dropout, c.dropout)
               \/ Lacks(NestedConfig, K_dropout) /\ c.dropout = [t |-> "float", val |-> "0.1"]

C6_Witness ==
    /\ resolved # Pending
    /\ resolved.kind = "ok"
    /\ Lacks(checkpoint, K_config)
    /\ Stored(checkpoint, K_vocab_size, [t |-> "int", val |-> 7])
    /\ tokenizer.vocab_size = 9
    /\ resolved.config.vocab_size.val = 7
    /\ resolved.config.n_heads.val = 8
    /\ resolved.config.dropout.val = "0.1"

\* ======================================== properties of the postprocessing
IsLowerLetter(c) ==
    c \in {"a","b","c","d","e","f","g","h","i","j","k","l","m",
           "n","o","p","q","r","s","t","u","v","w","x","y","z"}
IsMark(c) == c \in {".", "!", "?"}
IsSpace(c) == c \in {" ", "\t", "\n", "\r", "\f"}

\* position j of text is a lowercase letter reached from a mark through whitespace only
AfterMark(text, j) ==
    /\ IsLowerLetter(text[j])
    /\ \E i \in 1..(j - 1) :
          /\ IsMark(text[i])
          /\ \A h \in (i + 1)..(j - 1) : IsSpace(text[h])

\* position h of text is whitespace between a mark and such a letter
Absorbed(text, h) ==
    /\ IsSpace(text[h])
    /\ \E j \in (h + 1)..Len(text) :
          /\ AfterMark(text, j)
          /\ \A g \in h..(j - 1) : IsSpace(text[g])
    /\ \E i \in 1..(h - 1) :
          /\ IsMark(text[i])
          /\ \A g \in (i + 1)..h : IsSpace(text[g])

\* what the rewrite is said to produce, position by position
RECURSIVE Rewritten(_, _)
Rewritten(text, i) ==
    IF i > Len(text) THEN << >>
    ELSE (IF Absorbed(text, i) THEN << >>
          ELSE IF AfterMark(text, i)
          THEN <<" ", AsciiUpper[CHOOSE n \in 1..26 : AsciiLower[n] = text[i]]>>
          ELSE <<text[i]>>) \o Rewritten(text, i + 1)

\* C9: the first character is capitalized; every mark followed by optional
\* whitespace and a lowercase letter becomes mark, one space, the letter in
\* upper case; so no lowercase letter follows a mark, with or without
\* whitespace between; and the example sentence comes out as documented.
C9_Clean ==
    /\ post_pc = "capitalized" =>
          /\ Len(recipe_text) = Len(decoded)
          /\ Len(decoded) > 0 =>
                /\ ~IsLowerLetter(recipe_text[1])
                /\ IsLowerLetter(decoded[1]) =>
                      recipe_text[1] = AsciiUpper[CHOOSE n \in 1..26 : AsciiLower[n] = decoded[1]]
    /\ post_pc = "substituted" =>
          /\ recipe_text = Rewritten(capitalize(decoded), 1)
          /\ Len(decoded) > 0 =>
                /\ Len(recipe_text) > 0
                /\ ~IsLowerLetter(recipe_text[1])
          /\ \A j \in 1..Len(recipe_text) : ~AfterMark(recipe_text, j)
          /\ decoded = ExampleText => recipe_text = ExampleClean

C9_Witness ==
    /\ post_pc = "substituted"
    /\ decoded = <<"a", ".", " ", "a">>
    /\ recipe_text = <<"A", ".", " ", "A">>

\* ============================================ properties of the generation
Generated == Len(output_ids) - Len(input_ids)

GenLengthBound ==
    /\ Len(input_ids) <= 200
    /\ gen_pc \in {"sampling", "returned"} =>
          /\ Generated <= 300
          /\ SubSeq(output_ids, 1, Len(input_ids)) = input_ids
          /\ \A i \in (Len(input_ids) + 1)..(Len(output_ids) - 1) : output_ids[i] # "<eos>"
    /\ gen_pc = "sampling" => Generated < 300
    /\ gen_pc = "returned" =>
          /\ Generated >= 1
          /\ output_ids[Len(output_ids)] = "<eos>" \/ Generated = 300

\* C8: generation stops at the end-of-sequence token or at the length bound,
\* whichever comes first; it never produces more than 300 tokens beyond an
\* input of at most 200, and every started generation returns.
C8_BoundedTermination ==
    /\ []GenLengthBound
    /\ (gen_pc = "sampling") ~> (gen_pc = "returned")

C8_Witness ==
    /\ gen_pc = "returned"
    /\ Len(input_ids) = 200
    /\ Generated = 300
    /\ output_ids[Len(output_ids)] # "<eos>"

\* ================================================ properties of the loader
IsNone(x) == x.t = "None"

\* no step of this load fails: both files exist, no library call raises,
\* and the parameter mapping has a first key
EveryStepSucceeds(env) ==
    /\ env.fault = "none"
    /\ env.tokenizer_exists
    /\ env.model_exists
    /\ \/ \E i \in 1..Len(env.checkpoint) :
             /\ env.checkpoint[i].k = K_model_state_dict
             /\ Len(env.checkpoint[i].v.val) > 0
       \/ /\ \A i \in 1..Len(env.checkpoint) : env.checkpoint[i].k # K_model_state_dict
          /\ Len(env.checkpoint) > 0

\* C1: the loader returns normally on every path; the triple is fully
\* populated exactly when every step succeeded and is (None, None, None)
\* otherwise; no mixed triple is returned.
C1_AllOrNothing ==
    loaded # Pending =>
        /\ loaded.kind = "return"
        /\ IF EveryStepSucceeds(environment)
           THEN /\ ~IsNone(loaded.value.model)
                /\ ~IsNone(loaded.value.tokenizer)
                /\ ~IsNone(loaded.value.device)
           ELSE /\ IsNone(loaded.value.model)
                /\ IsNone(loaded.value.tokenizer)
                /\ IsNone(loaded.value.device)

C1_Witness ==
    /\ loaded # Pending
    /\ environment.tokenizer_exists
    /\ environment.model_exists
    /\ environment.fault = "none"
    /\ environment.checkpoint = << >>
    /\ loaded.kind = "return"
    /\ IsNone(loaded.value.model)
    /\ IsNone(loaded.value.device)

\* =========================================== properties of the application
AfterLoad ==
    {"inference", "format", "encode", "generate", "decode", "postprocess",
     "render", "except", "done"}

\* C2: the loader body runs at most once; whatever it returned, populated
\* or all-absent, is what the cache holds and what every caller receives.
C2_SingleLoad ==
    /\ Len(loads) <= 1
    /\ cache.filled =>
          /\ Len(loads) = 1
          /\ cache.value = loads[1]
    /\ \A t \in Sessions :
          session[t].pc \in AfterLoad =>
              /\ Len(loads) = 1
              /\ session[t].model = loads[1].model
              /\ session[t].tokenizer = loads[1].tokenizer
              /\ session[t].device = loads[1].device

\* two callers raced: one ran the body, which failed, and has its result;
\* the other missed the cache, holds the lock and is about to find it filled
C2_Witness ==
    /\ Len(loads) = 1
    /\ IsNone(loads[1].model)
    /\ \E t, u \in Sessions :
          /\ session[t].pc = "locked"
          /\ session[u].pc \in AfterLoad
          /\ IsNone(session[u].model)

PipelineOrder == <<"format", "encode", "generate", "decode", "postprocess", "render">>

IsPrefixOf(s, full) == Len(s) <= Len(full) /\ \A i \in 1..Len(s) : s[i] = full[i]

\* C3: with an empty ingredient string nothing of the pipeline is called and
\* only the warning is shown, loaded or not; with absent resources the load
\* failure is reported and nothing is called; otherwise the calls happen in
\* the order format, encode, generate, decode, postprocess, render.  No call
\* is made while the model is absent.
C3_TriggerGuards ==
    \A t \in Sessions :
        LET s == session[t]
        IN  /\ IsPrefixOf(s.trace, PipelineOrder)
            /\ s.trace # << >> =>
                  /\ s.generate_btn
                  /\ s.ingredients_input # << >>
                  /\ ~IsNone(s.model)
                  /\ ~IsNone(s.tokenizer)
                  /\ ~IsNone(s.device)
            /\ s.pc = "done" =>
                  IF ~s.generate_btn
                  THEN s.trace = << >> /\ s.shown = << >>
                  ELSE IF s.ingredients_input = << >>
                  THEN /\ s.trace = << >>
                       /\ Len(s.shown) = 1
                       /\ s.shown[1].level = "warning"
                  ELSE IF IsNone(s.model)
                  THEN /\ s.trace = << >>
                       /\ Len(s.shown) = 1
                       /\ s.shown[1] = [level |-> "error", text |-> "Model failed to load."]
                  ELSE IF s.exc = "none"
                  THEN s.trace = PipelineOrder
                  ELSE s.trace # << >> /\ s.trace[Len(s.trace)] = s.exc

C3_Witness ==
    \E t, u \in Sessions :
        /\ session[t].pc = "done"
        /\ session[t].trace = PipelineOrder
        /\ session[t].text = <<"O", "k", ".", " ", "G", "o">>
        /\ session[u].pc = "done"
        /\ session[u].generate_btn
        /\ session[u].ingredients_input = << >>
        /\ ~IsNone(session[u].model)

HasLevel(msgs, level) == \E i \in 1..Len(msgs) : msgs[i].level = level

\* C7: every failure comes with a message and none escapes.  An all-absent
\* load result carries an error message; an empty ingredient string gets a
\* warning; absent resources get the load-failure error; an exception in
\* the format..render chain is caught and reported; no script run crashes.
C7_NoSilentFailure ==
    /\ (cache.filled /\ IsNone(cache.value.model)) => HasLevel(cache.msgs, "error")
    /\ \A t \in Sessions :
          LET s == session[t]
          IN  /\ s.pc # "crashed"
              /\ (s.pc \in AfterLoad /\ IsNone(s.model)) => HasLevel(s.load_msgs, "error")
              /\ s.exc # "none" => s.pc \in {"except", "done"}
              /\ s.pc = "done" =>
                    /\ (s.generate_btn /\ s.ingredients_input = << >>)
                          => HasLevel(s.shown, "warning")
                    /\ (s.generate_btn /\ s.ingredients_input # << >> /\ IsNone(s.model))
                          => HasLevel(s.shown, "error")
                    /\ s.exc # "none"
                          => HasLevel(s.shown, "error") /\ HasLevel(s.shown, "exception")

C7_Witness ==
    \E t, u \in Sessions :
        /\ session[t].pc = "done"
        /\ session[t].exc = "generate"
        /\ HasLevel(session[t].shown, "exception")
        /\ session[u].pc = "start"
        /\ cache.filled

====
